---- MODULE Spec2Model ----
(***************************************************************************)
(* Application lifecycle of the job-placement server:                      *)
(*   server/routes/applications.js  (the request handlers)                 *)
(*   server/models/Application.js   (schema, unique index, pre-save hook)  *)
(*   server/models/Job.js           (status enum, incrementApplicationCount)*)
(* Every handler is an async function: between two awaits it runs without  *)
(* interruption, and at each await another request may run.  One action of *)
(* the model is one such uninterrupted segment together with the database  *)
(* operation that starts it.                                               *)
(***************************************************************************)
EXTENDS Integers, Sequences, FiniteSets, TLC

\* ---------------------------------------------------------------- bounds
MaxApps     == 2      \* application records ever created
MaxEntries  == 5      \* timeline entries, summed over all applications
MaxInFlight == 2      \* requests being handled at the same time
MaxNow      == 2      \* the clock reads 1..MaxNow

\* ---------------------------------------------------------------- users
Students   == {"s1", "s2"}
Recruiters == {"r1", "r2"}
Admins     == {"a1"}
Users      == Students \cup Recruiters \cup Admins

\* User.role
Role(u) ==
  IF u \in Students THEN "student"
  ELSE IF u \in Recruiters THEN "recruiter"
  ELSE "admin"

\* ---------------------------------------------------------------- jobs
JobIds    == {"j1", "j2"}
NoJob     == "j0"                      \* a well-formed id of no job
JobStatuses ==
  {"draft", "active", "paused", "closed", "pending", "approved", "rejected"}

\* the recruiter who posted each job (POST /api/jobs: recruiter = req.user._id)
JobRecruiter(j) == IF j = "j1" THEN "r1" ELSE "r2"

\* ---------------------------------------------------------------- applications
AppStatuses ==
  {"pending", "under_review", "interview", "approved", "rejected", "withdrawn"}

\* seeded fault: the route accepts every status of the schema's enum
validStatusesOfSchema ==
  {"pending", "under_review", "interview", "approved", "rejected", "withdrawn"}

\* PUT /:id/status, validStatuses
validStatuses == {"pending", "under_review", "interview", "approved", "rejected"}

NoUser == "none"                       \* updatedBy left out of a timeline entry
NoInterview ==
  [scheduled |-> FALSE, date |-> "", time |-> "", location |-> "", type |-> "", notes |-> ""]

\* response kinds
Created      == "Created"              \* 201
OK           == "OK"                   \* 200
NotFound     == "NotFound"             \* 404
Forbidden    == "Forbidden"            \* 403
InvalidState == "InvalidState"         \* 400, job not accepting / cannot withdraw
Expired      == "Expired"              \* 400, deadline passed
Conflict     == "Conflict"             \* 400, already applied
InvalidStatus == "InvalidStatus"       \* 400, invalid status
ServerError  == "ServerError"          \* 500

Idle == [op |-> "idle"]

VARIABLES
  jobs,     \* the jobs collection: JobIds -> document
  apps,     \* the applications collection, in insertion order; _id = position
  reqs,     \* the requests being handled: slot -> Idle or the handler's locals
  resp,     \* the response sent last: [op, code]
  now       \* new Date()

vars == <<jobs, apps, reqs, resp, now>>

Slots  == 1..MaxInFlight
\* req.params.id: the id of each record, and one well-formed id of no record
AppIds == 1..(Len(apps) + 1)

\* ---------------------------------------------------------------- helpers
\* Application.findOne({job, student})
findOne(j, s) == {i \in 1..Len(apps) : apps[i].job = j /\ apps[i].student = s}

\* Application.findById
Exists(id) == id \in 1..Len(apps)

\* res.status(...).json(...): the handler returns and its locals are gone
Respond(i, op, code) ==
  /\ reqs' = [reqs EXCEPT ![i] = Idle]
  /\ resp' = [op |-> op, code |-> code]

\* middleware authorize(...roles); the handler is not entered otherwise
authorize(roles, caller) == Role(caller) \in roles

\* ---------------------------------------------------------------- bounds at work
\* A request that would add a record or timeline entries is admitted only
\* while the bounds leave room for what it and the requests already being
\* handled may still write.
RECURSIVE SumLen(_)
SumLen(n) == IF n = 0 THEN 0 ELSE Len(apps[n].timeline) + SumLen(n - 1)

\* requests that have read and will still insert a record / push entries
Inserting == {i \in Slots : reqs[i].op = "submitApplication" /\ reqs[i].pc \in {"findOne", "create"}}
Pushing   == {i \in Slots : reqs[i].op \in {"updateStatus", "scheduleInterview", "withdraw"}}

\* a new request is taken by the first handler that is free
Free(i) == reqs[i] = Idle /\ \A k \in 1..(i - 1) : reqs[k] # Idle

RoomForRecord ==
  /\ Len(apps) + Cardinality(Inserting) < MaxApps
  /\ SumLen(Len(apps)) + Cardinality(Inserting) + 2 * Cardinality(Pushing) + 1 <= MaxEntries
RoomForEntries ==
  SumLen(Len(apps)) + Cardinality(Inserting) + 2 * Cardinality(Pushing) + 2 <= MaxEntries

\* ---------------------------------------------------------------- POST /
\* seeded fault: only a closed job refuses applications
NotAcceptingClosedOnly(job) == job.status = "closed"

\* job.status !== 'active'
NotAccepting(job) == job.status # "active"

\* seeded fault: the deadline itself is already too late
DeadlinePassedAtDeadline(job, t) == job.applicationDeadline # 0 /\ t >= job.applicationDeadline

\* job.applicationDeadline && new Date() > job.applicationDeadline
DeadlinePassed(job, t) == job.applicationDeadline # 0 /\ t > job.applicationDeadline

\* seeded fault: the collection has no unique index
DuplicateKeyNoIndex(j, s) == FALSE

\* the unique index {job: 1, student: 1}: an insert of a second record fails
DuplicateKey(j, s) == findOne(j, s) # {}

\* seeded fault: the pre-save hook also runs its push for a new document
NewApplicationHooked(j, s, r) ==
  [job |-> j, student |-> s, recruiter |-> r, status |-> "pending",
   timeline |-> << [status |-> "pending", note |-> "Application submitted",
                    updatedBy |-> NoUser],
                   [status |-> "pending", note |-> "Status changed to pending",
                    updatedBy |-> NoUser] >>,
   interview |-> NoInterview]

\* Application.create({...}): status defaults to 'pending'; the pre-save hook
\* does nothing for a new document
NewApplication(j, s, r) ==
  [job |-> j, student |-> s, recruiter |-> r, status |-> "pending",
   timeline |-> << [status |-> "pending", note |-> "Application submitted",
                    updatedBy |-> NoUser] >>,
   interview |-> NoInterview]

\* seeded fault: the deadline is checked before the job's status
SubmitFindJobDeadlineFirst(i, caller, j) ==
  /\ Free(i)
  /\ UNCHANGED <<jobs, apps, now>>
  /\ IF ~authorize({"student"}, caller)
       THEN Respond(i, "submitApplication", Forbidden)
     ELSE IF j \notin JobIds \/ ~jobs[j].exists
       THEN Respond(i, "submitApplication", NotFound)
     ELSE IF DeadlinePassed(jobs[j], now)
       THEN Respond(i, "submitApplication", Expired)
     ELSE IF NotAccepting(jobs[j])
       THEN Respond(i, "submitApplication", InvalidState)
     ELSE /\ RoomForRecord
          /\ reqs' = [reqs EXCEPT ![i] =
                 [op |-> "submitApplication", pc |-> "findOne", caller |-> caller,
                  id |-> j, doc |-> jobs[j]]]
          /\ UNCHANGED resp

\* Job.findById(jobId) and the checks on the job, up to the await of findOne
SubmitFindJob(i, caller, j) ==
  /\ Free(i)
  /\ UNCHANGED <<jobs, apps, now>>
  /\ IF ~authorize({"student"}, caller)
       THEN Respond(i, "submitApplication", Forbidden)
     ELSE IF j \notin JobIds \/ ~jobs[j].exists
       THEN Respond(i, "submitApplication", NotFound)
     ELSE IF NotAccepting(jobs[j])
       THEN Respond(i, "submitApplication", InvalidState)
     ELSE IF DeadlinePassed(jobs[j], now)
       THEN Respond(i, "submitApplication", Expired)
     ELSE /\ RoomForRecord
          /\ reqs' = [reqs EXCEPT ![i] =
                 [op |-> "submitApplication", pc |-> "findOne", caller |-> caller,
                  id |-> j, doc |-> jobs[j]]]
          /\ UNCHANGED resp

\* Application.findOne({job, student}) and the check of its result
SubmitFindOne(i) ==
  /\ reqs[i].op = "submitApplication" /\ reqs[i].pc = "findOne"
  /\ UNCHANGED <<jobs, apps, now>>
  /\ IF findOne(reqs[i].id, reqs[i].caller) # {}
       THEN Respond(i, "submitApplication", Conflict)
       ELSE /\ reqs' = [reqs EXCEPT ![i].pc = "create"]
            /\ UNCHANGED resp

\* seeded fault: the count is incremented before the insert is known to succeed
SubmitCreateCountingFirst(i) ==
  /\ reqs[i].op = "submitApplication" /\ reqs[i].pc = "create"
  /\ UNCHANGED now
  /\ IF DuplicateKey(reqs[i].id, reqs[i].caller)
       THEN /\ Respond(i, "submitApplication", ServerError)
            /\ jobs' = [jobs EXCEPT ![reqs[i].id].applicationCount =
                          reqs[i].doc.applicationCount + 1]
            /\ UNCHANGED apps
       ELSE /\ apps' = Append(apps, NewApplication(reqs[i].id, reqs[i].caller,
                                                   reqs[i].doc.recruiter))
            /\ reqs' = [reqs EXCEPT ![i].pc = "increment"]
            /\ UNCHANGED <<jobs, resp>>

\* Application.create(...); a rejected insert throws into the catch block
SubmitCreate(i) ==
  /\ reqs[i].op = "submitApplication" /\ reqs[i].pc = "create"
  /\ UNCHANGED <<jobs, now>>
  /\ IF DuplicateKey(reqs[i].id, reqs[i].caller)
       THEN /\ Respond(i, "submitApplication", ServerError)
            /\ UNCHANGED apps
       ELSE /\ apps' = Append(apps, NewApplication(reqs[i].id, reqs[i].caller,
                                                   reqs[i].doc.recruiter))
            /\ reqs' = [reqs EXCEPT ![i].pc = "increment"]
            /\ UNCHANGED resp

\* seeded fault: the counter is raised by two
SubmitIncrementByTwo(i) ==
  /\ reqs[i].op = "submitApplication" /\ reqs[i].pc = "increment"
  /\ UNCHANGED <<apps, now>>
  /\ IF ~jobs[reqs[i].id].exists
       THEN /\ Respond(i, "submitApplication", ServerError)
            /\ UNCHANGED jobs
       ELSE /\ jobs' = [jobs EXCEPT ![reqs[i].id].applicationCount =
                          reqs[i].doc.applicationCount + 2]
            /\ Respond(i, "submitApplication", Created)

\* job.incrementApplicationCount(): this.applicationCount += 1; this.save()
\* on the document as it was loaded; save() of a deleted document throws
SubmitIncrement(i) ==
  /\ reqs[i].op = "submitApplication" /\ reqs[i].pc = "increment"
  /\ UNCHANGED <<apps, now>>
  /\ IF ~jobs[reqs[i].id].exists
       THEN /\ Respond(i, "submitApplication", ServerError)
            /\ UNCHANGED jobs
       ELSE /\ jobs' = [jobs EXCEPT ![reqs[i].id].applicationCount =
                          reqs[i].doc.applicationCount + 1]
            /\ Respond(i, "submitApplication", Created)

\* ---------------------------------------------------------------- GET /:id
\* seeded fault: every recruiter may read
hasAccessAnyStaff(app, caller) ==
  \/ app.student = caller
  \/ Role(caller) \in {"recruiter", "admin"}

\* hasAccess
hasAccess(app, caller) ==
  \/ app.student = caller
  \/ app.recruiter = caller
  \/ Role(caller) = "admin"

\* seeded fault: a missing application is reported as a refusal
GetApplicationCodeHidingMissing(caller, id) ==
  IF ~Exists(id) THEN Forbidden
  ELSE IF ~hasAccess(apps[id], caller) THEN Forbidden
  ELSE OK

\* the answer of GET /:id: 404 for no application, 403 without access
GetApplicationCode(caller, id) ==
  IF ~Exists(id) THEN NotFound
  ELSE IF ~hasAccess(apps[id], caller) THEN Forbidden
  ELSE OK

\* the whole handler: one findById (with populate), no write
GetApplication(i, caller, id) ==
  /\ Free(i)
  /\ Respond(i, "getApplication", GetApplicationCode(caller, id))
  /\ UNCHANGED <<jobs, apps, now>>

\* ---------------------------------------------------------------- save()
\* `Status changed to ${status}`
StatusChangedTo(status) == "Status changed to " \o status

\* applicationSchema.pre('save'): the entries the hook adds to a loaded
\* (not new) document whose status was set to `status`
PreSave(loadedStatus, status) ==
  IF status # loadedStatus
    THEN << [status |-> status, note |-> StatusChangedTo(status), updatedBy |-> NoUser] >>
    ELSE << >>

\* seeded fault: the stored timeline is replaced by the entries of this request
SaveReplacingTimeline(id, loaded, status, interview, pushed) ==
  [apps EXCEPT ![id] =
     [@ EXCEPT !.status    = status,
               !.interview = interview,
               !.timeline  = pushed \o PreSave(loaded.status, status)]]

\* document.save() of a loaded document: the modified paths are $set, the
\* pushed array elements are $push-ed onto the stored array
Save(id, loaded, status, interview, pushed) ==
  [apps EXCEPT ![id] =
     [@ EXCEPT !.status    = IF status # loaded.status THEN status ELSE @,
               !.interview = IF interview # loaded.interview THEN interview ELSE @,
               !.timeline  = @ \o pushed \o PreSave(loaded.status, status)]]

\* what a handler keeps of the document findById loaded
Loaded(app) == [status |-> app.status, interview |-> app.interview]

\* seeded fault: the ownership check is left out
NotOwnerUnchecked(app, caller) == FALSE

\* seeded fault: the ownership check applies to every role
NotOwnerWhateverRole(app, caller) == app.recruiter # caller

\* the recruiter-ownership check of PUT /:id/status and PUT /:id/interview
NotOwner(app, caller) == Role(caller) = "recruiter" /\ app.recruiter # caller

\* ---------------------------------------------------------------- PUT /:id/status
StatusInputs == validStatuses \cup {"withdrawn", "hired"}

\* note || `Status changed to ${status}`
NoteOrDefault(note, status) == IF note # "" THEN note ELSE StatusChangedTo(status)

\* seeded fault: an approved or rejected application takes no further status
UpdateStatusFindFinal(i, caller, id, status, note) ==
  /\ Free(i)
  /\ UNCHANGED <<jobs, apps, now>>
  /\ IF ~authorize({"recruiter", "admin"}, caller)
       THEN Respond(i, "updateStatus", Forbidden)
     ELSE IF status \notin validStatuses
       THEN Respond(i, "updateStatus", InvalidStatus)
     ELSE IF ~Exists(id)
       THEN Respond(i, "updateStatus", NotFound)
     ELSE IF NotOwner(apps[id], caller)
       THEN Respond(i, "updateStatus", Forbidden)
     ELSE IF apps[id].status \in {"approved", "rejected"}
       THEN Respond(i, "updateStatus", InvalidState)
     ELSE /\ RoomForEntries
          /\ reqs' = [reqs EXCEPT ![i] =
                 [op |-> "updateStatus", pc |-> "save", caller |-> caller, id |-> id,
                  status |-> status, note |-> note, doc |-> Loaded(apps[id])]]
          /\ UNCHANGED resp

\* the validStatuses check, Application.findById and the ownership check
UpdateStatusFind(i, caller, id, status, note) ==
  /\ Free(i)
  /\ UNCHANGED <<jobs, apps, now>>
  /\ IF ~authorize({"recruiter", "admin"}, caller)
       THEN Respond(i, "updateStatus", Forbidden)
     ELSE IF status \notin validStatuses
       THEN Respond(i, "updateStatus", InvalidStatus)
     ELSE IF ~Exists(id)
       THEN Respond(i, "updateStatus", NotFound)
     ELSE IF NotOwner(apps[id], caller)
       THEN Respond(i, "updateStatus", Forbidden)
     ELSE /\ RoomForEntries
          /\ reqs' = [reqs EXCEPT ![i] =
                 [op |-> "updateStatus", pc |-> "save", caller |-> caller, id |-> id,
                  status |-> status, note |-> note, doc |-> Loaded(apps[id])]]
          /\ UNCHANGED resp

\* application.status = status; timeline.push(...); await application.save()
UpdateStatusSave(i) ==
  /\ reqs[i].op = "updateStatus" /\ reqs[i].pc = "save"
  /\ apps' = Save(reqs[i].id, reqs[i].doc, reqs[i].status, reqs[i].doc.interview,
                  << [status |-> reqs[i].status,
                      note |-> NoteOrDefault(reqs[i].note, reqs[i].status),
                      updatedBy |-> reqs[i].caller] >>)
  /\ Respond(i, "updateStatus", OK)
  /\ UNCHANGED <<jobs, now>>

\* ---------------------------------------------------------------- PUT /:id/interview
\* interview.type: enum ['phone', 'video', 'in-person']
InterviewTypes == {"phone", "video", "in-person"}

\* req.body of a scheduling request: {date, time, location, type, notes}
InterviewInputs ==
  { [date |-> "2024-02-01", time |-> "10:00", location |-> "Room 1",
     type |-> "video", notes |-> "bring id"],
    [date |-> "2024-02-01", time |-> "10:00", location |-> "Room 1",
     type |-> "onsite", notes |-> "bring id"],
    [date |-> "next week", time |-> "10:00", location |-> "Room 1",
     type |-> "video", notes |-> "bring id"] }

\* the date strings that new Date(...) can parse
DateStrings == {"2024-02-01"}
InvalidDate == "Invalid Date"

\* new Date(date): the Date value of a string it can parse, else Invalid Date
NewDate(s) == IF s \in DateStrings THEN "Date(" \o s \o ")" ELSE InvalidDate

\* application.interview = {scheduled: true, date: new Date(date), time, ...}
Scheduled(d) ==
  [scheduled |-> TRUE, date |-> NewDate(d.date), time |-> d.time, location |-> d.location,
   type |-> d.type, notes |-> d.notes]

\* `Interview scheduled for ${date} at ${time}`
InterviewNote(d) == "Interview scheduled for " \o d.date \o " at " \o d.time

\* the interview sub-document passes the schema: the type is in the enum and
\* the date is a Date
ValidInterview(v) == v.type \in InterviewTypes /\ v.date # InvalidDate

\* Application.findById and the ownership check
ScheduleInterviewFind(i, caller, id, d) ==
  /\ Free(i)
  /\ UNCHANGED <<jobs, apps, now>>
  /\ IF ~authorize({"recruiter", "admin"}, caller)
       THEN Respond(i, "scheduleInterview", Forbidden)
     ELSE IF ~Exists(id)
       THEN Respond(i, "scheduleInterview", NotFound)
     ELSE IF NotOwner(apps[id], caller)
       THEN Respond(i, "scheduleInterview", Forbidden)
     ELSE /\ RoomForEntries
          /\ reqs' = [reqs EXCEPT ![i] =
                 [op |-> "scheduleInterview", pc |-> "save", caller |-> caller,
                  id |-> id, details |-> d, doc |-> Loaded(apps[id])]]
          /\ UNCHANGED resp

\* seeded fault: the status is left as it was loaded
ScheduleInterviewSaveKeepingStatus(i) ==
  /\ reqs[i].op = "scheduleInterview" /\ reqs[i].pc = "save"
  /\ UNCHANGED <<jobs, now>>
  /\ IF ~ValidInterview(Scheduled(reqs[i].details))
       THEN /\ Respond(i, "scheduleInterview", ServerError)
            /\ UNCHANGED apps
       ELSE /\ apps' = Save(reqs[i].id, reqs[i].doc, reqs[i].doc.status,
                            Scheduled(reqs[i].details),
                            << [status |-> "interview",
                                note |-> InterviewNote(reqs[i].details),
                                updatedBy |-> reqs[i].caller] >>)
            /\ Respond(i, "scheduleInterview", OK)

\* application.interview = ...; status = 'interview'; timeline.push(...);
\* await application.save(), whose validation rejects a type outside the enum
\* and a date that is no date
ScheduleInterviewSave(i) ==
  /\ reqs[i].op = "scheduleInterview" /\ reqs[i].pc = "save"
  /\ UNCHANGED <<jobs, now>>
  /\ IF ~ValidInterview(Scheduled(reqs[i].details))
       THEN /\ Respond(i, "scheduleInterview", ServerError)
            /\ UNCHANGED apps
       ELSE /\ apps' = Save(reqs[i].id, reqs[i].doc, "interview",
                            Scheduled(reqs[i].details),
                            << [status |-> "interview",
                                note |-> InterviewNote(reqs[i].details),
                                updatedBy |-> reqs[i].caller] >>)
            /\ Respond(i, "scheduleInterview", OK)

\* ---------------------------------------------------------------- PUT /:id/withdraw
\* seeded fault: only an approved application is final
CannotWithdrawApprovedOnly(status) == status = "approved"

\* ['approved', 'rejected'].includes(application.status)
CannotWithdraw(status) == status \in {"approved", "rejected"}

\* seeded fault: any student may withdraw any application
NotOwnStudentUnchecked(app, caller) == FALSE

\* application.student.toString() !== req.user._id.toString()
NotOwnStudent(app, caller) == app.student # caller

\* Application.findById, the ownership check and the stage check
WithdrawFind(i, caller, id) ==
  /\ Free(i)
  /\ UNCHANGED <<jobs, apps, now>>
  /\ IF ~authorize({"student"}, caller)
       THEN Respond(i, "withdraw", Forbidden)
     ELSE IF ~Exists(id)
       THEN Respond(i, "withdraw", NotFound)
     ELSE IF NotOwnStudent(apps[id], caller)
       THEN Respond(i, "withdraw", Forbidden)
     ELSE IF CannotWithdraw(apps[id].status)
       THEN Respond(i, "withdraw", InvalidState)
     ELSE /\ RoomForEntries
          /\ reqs' = [reqs EXCEPT ![i] =
                 [op |-> "withdraw", pc |-> "save", caller |-> caller, id |-> id,
                  doc |-> Loaded(apps[id])]]
          /\ UNCHANGED resp

\* seeded fault: a withdrawal clears the interview
WithdrawSaveClearingInterview(i) ==
  /\ reqs[i].op = "withdraw" /\ reqs[i].pc = "save"
  /\ apps' = Save(reqs[i].id, reqs[i].doc, "withdrawn", NoInterview,
                  << [status |-> "withdrawn",
                      note |-> "Application withdrawn by student",
                      updatedBy |-> NoUser] >>)
  /\ Respond(i, "withdraw", OK)
  /\ UNCHANGED <<jobs, now>>

\* application.status = 'withdrawn'; timeline.push(...); await application.save()
WithdrawSave(i) ==
  /\ reqs[i].op = "withdraw" /\ reqs[i].pc = "save"
  /\ apps' = Save(reqs[i].id, reqs[i].doc, "withdrawn", reqs[i].doc.interview,
                  << [status |-> "withdrawn",
                      note |-> "Application withdrawn by student",
                      updatedBy |-> NoUser] >>)
  /\ Respond(i, "withdraw", OK)
  /\ UNCHANGED <<jobs, now>>

\* ---------------------------------------------------------------- GET /my, GET /received
\* req.query of a listing: status and jobId ("" when left out), page, limit
ListQueries ==
  [status : {"", "approved"}, jobId : {"", "j1"}, page : {1, 2}, limit : {1, 2}]

\* the filter with the fields in S only
Restrict(f, S) == [x \in S |-> f[x]]

\* GET /my: query = {student}, with status when given; a jobId is not read
MyQuery(caller, q) ==
  Restrict([student |-> caller, status |-> q.status],
           {"student"} \cup (IF q.status # "" THEN {"status"} ELSE {}))

\* seeded fault: the listing is not scoped to the recruiter when a job is named
ReceivedQueryByJobAlone(caller, q) ==
  Restrict([recruiter |-> caller, status |-> q.status, job |-> q.jobId],
           (IF q.jobId # "" THEN {"job"} ELSE {"recruiter"})
             \cup (IF q.status # "" THEN {"status"} ELSE {}))

\* GET /received: query = {recruiter}, with status and job when given
ReceivedQuery(caller, q) ==
  Restrict([recruiter |-> caller, status |-> q.status, job |-> q.jobId],
           {"recruiter"} \cup (IF q.status # "" THEN {"status"} ELSE {})
                         \cup (IF q.jobId # "" THEN {"job"} ELSE {}))

\* the ids of the applications that match the filter
Matching(query) ==
  {id \in 1..Len(apps) : \A f \in DOMAIN query : apps[id][f] = query[f]}

\* sort('-createdAt'): the ids of S, the latest record first
RECURSIVE Descending(_)
Descending(S) ==
  IF S = {} THEN << >>
  ELSE LET m == CHOOSE x \in S : \A y \in S : y <= x
       IN <<m>> \o Descending(S \ {m})

\* skip(skip).limit(limit)
SkipLimit(seq, skip, limit) ==
  SubSeq(seq, skip + 1, IF skip + limit < Len(seq) THEN skip + limit ELSE Len(seq))

\* what the response shows of an application
Listed(id) ==
  [id |-> id, job |-> apps[id].job, student |-> apps[id].student,
   recruiter |-> apps[id].recruiter, status |-> apps[id].status]

\* Application.find(query).skip((page - 1) * limit).limit(limit).sort('-createdAt')
Find(query, page, limit) ==
  LET ids == SkipLimit(Descending(Matching(query)), (page - 1) * limit, limit)
  IN [k \in 1..Len(ids) |-> Listed(ids[k])]

\* Math.ceil(total / limit)
Ceil(total, limit) == (total + limit - 1) \div limit

\* GET /my up to the await of find
ListMyFind(i, caller, q) ==
  /\ Free(i)
  /\ UNCHANGED <<jobs, apps, now>>
  /\ IF ~authorize({"student"}, caller)
       THEN Respond(i, "listMy", Forbidden)
       ELSE /\ reqs' = [reqs EXCEPT ![i] =
                   [op |-> "listMy", pc |-> "count", caller |-> caller, q |-> q,
                    query |-> MyQuery(caller, q),
                    applications |-> Find(MyQuery(caller, q), q.page, q.limit)]]
            /\ UNCHANGED resp

\* GET /received up to the await of find
ListReceivedFind(i, caller, q) ==
  /\ Free(i)
  /\ UNCHANGED <<jobs, apps, now>>
  /\ IF ~authorize({"recruiter"}, caller)
       THEN Respond(i, "listReceived", Forbidden)
       ELSE /\ reqs' = [reqs EXCEPT ![i] =
                   [op |-> "listReceived", pc |-> "count", caller |-> caller, q |-> q,
                    query |-> ReceivedQuery(caller, q),
                    applications |-> Find(ReceivedQuery(caller, q), q.page, q.limit)]]
            /\ UNCHANGED resp

\* Application.countDocuments(query) and the response of either listing
ListCount(i) ==
  /\ reqs[i].op \in {"listMy", "listReceived"} /\ reqs[i].pc = "count"
  /\ UNCHANGED <<jobs, apps, now>>
  /\ reqs' = [reqs EXCEPT ![i] = Idle]
  /\ LET total == Cardinality(Matching(reqs[i].query))
     IN resp' = [op |-> reqs[i].op, code |-> OK,
                 applications |-> reqs[i].applications,
                 page |-> reqs[i].q.page, limit |-> reqs[i].q.limit,
                 total |-> total, pages |-> Ceil(total, reqs[i].q.limit)]

\* ---------------------------------------------------------------- GET /stats/overview
\* matchQuery: the recruiter's own applications, every application for an admin
MatchQuery(caller) ==
  IF Role(caller) = "recruiter" THEN [recruiter |-> caller] ELSE << >>

\* $match, $group by status with $sum 1, reduced to an object keyed by status:
\* a status without application has no key
Aggregate(matchQuery) ==
  LET S == Matching(matchQuery)
  IN [s \in {apps[id].status : id \in S} |->
        Cardinality({id \in S : apps[id].status = s})]

\* GET /stats/overview up to the await of aggregate
StatsAggregate(i, caller) ==
  /\ Free(i)
  /\ UNCHANGED <<jobs, apps, now>>
  /\ IF ~authorize({"recruiter", "admin"}, caller)
       THEN Respond(i, "getStats", Forbidden)
       ELSE /\ reqs' = [reqs EXCEPT ![i] =
                   [op |-> "getStats", pc |-> "count", caller |-> caller,
                    matchQuery |-> MatchQuery(caller),
                    stats |-> Aggregate(MatchQuery(caller))]]
            /\ UNCHANGED resp

\* Application.countDocuments(matchQuery) and the response
StatsCount(i) ==
  /\ reqs[i].op = "getStats" /\ reqs[i].pc = "count"
  /\ UNCHANGED <<jobs, apps, now>>
  /\ reqs' = [reqs EXCEPT ![i] = Idle]
  /\ resp' = [op |-> "getStats", code |-> OK,
              total |-> Cardinality(Matching(reqs[i].matchQuery)),
              byStatus |-> reqs[i].stats]

\* ---------------------------------------------------------------- PUT /api/admin/jobs/:id/status
\* validStatuses of the admin route
jobValidStatuses == {"pending", "approved", "rejected", "active", "closed"}

\* the whole handler: the status check, then one Job.findByIdAndUpdate
UpdateJobStatus(i, caller, j, status) ==
  /\ Free(i)
  /\ UNCHANGED <<apps, now>>
  /\ IF ~authorize({"admin"}, caller)
       THEN Respond(i, "updateJobStatus", Forbidden) /\ UNCHANGED jobs
     ELSE IF status \notin jobValidStatuses
       THEN Respond(i, "updateJobStatus", InvalidStatus) /\ UNCHANGED jobs
     ELSE IF j \notin JobIds \/ ~jobs[j].exists
       THEN Respond(i, "updateJobStatus", NotFound) /\ UNCHANGED jobs
     ELSE /\ jobs' = [jobs EXCEPT ![j].status = status]
          /\ Respond(i, "updateJobStatus", OK)

\* ---------------------------------------------------------------- PUT /api/jobs/:id
\* req.body of a job update, the fields of the job it names: the route hands
\* the whole body to findByIdAndUpdate
JobBodies ==
  { [status |-> "closed"], [status |-> "active"], [status |-> "open"],
    [recruiter |-> "r2"] }

\* the job document with the fields of the body set
WithBody(job, body) ==
  [f \in DOMAIN job |-> IF f \in DOMAIN body THEN body[f] ELSE job[f]]

\* runValidators: the status of the update is one of the schema's enum
ValidJobBody(body) == "status" \in DOMAIN body => body.status \in JobStatuses

\* job.recruiter.toString() !== req.user._id.toString() && req.user.role !== 'admin'
NotJobOwner(job, caller) == job.recruiter # caller /\ Role(caller) # "admin"

\* Job.findById and the ownership check
UpdateJobFind(i, caller, j, body) ==
  /\ Free(i)
  /\ UNCHANGED <<jobs, apps, now>>
  /\ IF j \notin JobIds \/ ~jobs[j].exists
       THEN Respond(i, "updateJob", NotFound)
     ELSE IF NotJobOwner(jobs[j], caller)
       THEN Respond(i, "updateJob", Forbidden)
     ELSE /\ reqs' = [reqs EXCEPT ![i] =
                 [op |-> "updateJob", pc |-> "update", caller |-> caller, id |-> j,
                  body |-> body]]
          /\ UNCHANGED resp

\* Job.findByIdAndUpdate(id, req.body, {runValidators: true}): a body that
\* fails validation throws; a job deleted meanwhile yields null, which is
\* sent as the updated job
UpdateJobSave(i) ==
  /\ reqs[i].op = "updateJob" /\ reqs[i].pc = "update"
  /\ UNCHANGED <<apps, now>>
  /\ IF ~ValidJobBody(reqs[i].body)
       THEN Respond(i, "updateJob", ServerError) /\ UNCHANGED jobs
     ELSE IF ~jobs[reqs[i].id].exists
       THEN Respond(i, "updateJob", OK) /\ UNCHANGED jobs
     ELSE /\ jobs' = [jobs EXCEPT ![reqs[i].id] = WithBody(@, reqs[i].body)]
          /\ Respond(i, "updateJob", OK)

\* ---------------------------------------------------------------- DELETE /api/jobs/:id
\* Job.findById and the ownership check
DeleteJobFind(i, caller, j) ==
  /\ Free(i)
  /\ UNCHANGED <<jobs, apps, now>>
  /\ IF j \notin JobIds \/ ~jobs[j].exists
       THEN Respond(i, "deleteJob", NotFound)
     ELSE IF NotJobOwner(jobs[j], caller)
       THEN Respond(i, "deleteJob", Forbidden)
     ELSE /\ reqs' = [reqs EXCEPT ![i] =
                 [op |-> "deleteJob", pc |-> "delete", caller |-> caller, id |-> j]]
          /\ UNCHANGED resp

\* the applications to a job other than j
NotTo(j) == LET Other(a) == a.job # j IN SelectSeq(apps, Other)

\* seeded fault: deleting a job deletes the applications to it
DeleteJobSaveCascading(i) ==
  /\ reqs[i].op = "deleteJob" /\ reqs[i].pc = "delete"
  /\ jobs' = [jobs EXCEPT ![reqs[i].id].exists = FALSE]
  /\ apps' = NotTo(reqs[i].id)
  /\ Respond(i, "deleteJob", OK)
  /\ UNCHANGED now

\* Job.findByIdAndDelete(id): the job document is removed, nothing else
DeleteJobSave(i) ==
  /\ reqs[i].op = "deleteJob" /\ reqs[i].pc = "delete"
  /\ jobs' = [jobs EXCEPT ![reqs[i].id].exists = FALSE]
  /\ Respond(i, "deleteJob", OK)
  /\ UNCHANGED <<apps, now>>

\* ---------------------------------------------------------------- the clock
\* time passes between two steps: a later new Date() reads a later time
Tick ==
  /\ now < MaxNow
  /\ now' = now + 1
  /\ UNCHANGED <<jobs, apps, reqs, resp>>

\* ---------------------------------------------------------------- the system
\* the database after the jobs in J were posted, each with a deadline of D
\* (0: none), and before any application; the clock reads a time of T
InitWith(J, D, T) ==
  /\ jobs \in {f \in [JobIds -> [exists : BOOLEAN, recruiter : Recruiters,
                                   status : JobStatuses,
                                   applicationDeadline : D \cup {0},
                                   applicationCount : {0}]] :
                  \A j \in JobIds :
                    /\ f[j].recruiter = JobRecruiter(j)
                    /\ f[j].exists = (j \in J)
                    /\ j \in J => f[j].applicationDeadline \in D
                    /\ j \notin J => f[j].status = "pending" /\ f[j].applicationDeadline = 0}
  /\ apps = << >>
  /\ reqs = [i \in Slots |-> Idle]
  /\ resp = [op |-> "none", code |-> "none"]
  /\ now \in T

\* the steps of the request in slot i, its inputs drawn from the menu M
Handle(i, M) ==
  \/ \E c \in M.users, j \in M.jobs : SubmitFindJob(i, c, j)
  \/ SubmitFindOne(i)
  \/ SubmitCreate(i)
  \/ SubmitIncrement(i)
  \/ \E c \in M.users, id \in AppIds : GetApplication(i, c, id)
  \/ \E c \in M.users, id \in AppIds, st \in M.statuses, n \in M.notes :
       UpdateStatusFind(i, c, id, st, n)
  \/ UpdateStatusSave(i)
  \/ \E c \in M.users, id \in AppIds, d \in M.details :
       ScheduleInterviewFind(i, c, id, d)
  \/ ScheduleInterviewSave(i)
  \/ \E c \in M.users, id \in AppIds : WithdrawFind(i, c, id)
  \/ WithdrawSave(i)

\* every caller, every requested status and every kind of interview details,
\* against the one job j1, whose deadline is at time 1; status updates carry
\* a note
SeqMenu ==
  [users |-> Users, jobs |-> {"j1", NoJob}, statuses |-> StatusInputs,
   notes |-> {"Let's talk"}, details |-> InterviewInputs]

\* requests are handled one after the other
SeqInit == InitWith({"j1"}, {1}, 1..MaxNow)
SeqNext == Handle(1, SeqMenu)
SeqSpec == SeqInit /\ [][SeqNext]_vars

\* requests are handled concurrently: two students and the recruiter of j1;
\* status updates carry no note
RaceMenu ==
  [users |-> {"s1", "s2", "r1"}, jobs |-> {"j1"},
   statuses |-> {"approved", "pending"}, notes |-> {""},
   details |-> {d \in InterviewInputs : ValidInterview(Scheduled(d))}]

Init == InitWith({"j1"}, {0}, {1})
Next == \E i \in Slots : Handle(i, RaceMenu)
Spec == Init /\ [][Next]_vars

\* the steps of a submission or of a request on a job in slot i
HandleJobs(i, M) ==
  \/ \E c \in M.users, j \in M.jobs : SubmitFindJob(i, c, j)
  \/ SubmitFindOne(i)
  \/ SubmitCreate(i)
  \/ SubmitIncrement(i)
  \/ \E c \in M.users, j \in M.jobs, st \in M.jobStatuses : UpdateJobStatus(i, c, j, st)
  \/ \E c \in M.users, j \in M.jobs, b \in M.bodies : UpdateJobFind(i, c, j, b)
  \/ UpdateJobSave(i)
  \/ \E c \in M.users, j \in M.jobs : DeleteJobFind(i, c, j)
  \/ DeleteJobSave(i)

\* two students and the admin, against the job j1 and the id of no job; the
\* admin reopens and closes jobs, or asks for a status the route refuses,
\* through either route, and deletes jobs
JobMenu ==
  [users |-> {"s1", "s2", "a1"}, jobs |-> {"j1", NoJob},
   jobStatuses |-> {"active", "closed", "paused"},
   bodies |-> {b \in JobBodies : "recruiter" \notin DOMAIN b}]

\* submissions are handled concurrently while the clock advances and the
\* admin changes the job's status or deletes the job; j1 has no deadline or
\* the deadline 1
JobInit == InitWith({"j1"}, {0, 1}, {1})
JobNext == Tick \/ \E i \in Slots : HandleJobs(i, JobMenu)
JobSpec == JobInit /\ [][JobNext]_vars

\* the steps of any request on an application or on a job in slot i
HandleAll(i, M) ==
  \/ Handle(i, M)
  \/ \E c \in M.users, j \in M.jobs, st \in M.jobStatuses : UpdateJobStatus(i, c, j, st)
  \/ \E c \in M.users, j \in M.jobs, b \in M.bodies : UpdateJobFind(i, c, j, b)
  \/ UpdateJobSave(i)
  \/ \E c \in M.users, j \in M.jobs : DeleteJobFind(i, c, j)
  \/ DeleteJobSave(i)

\* the student s1, the recruiter r1 of j1 and the admin; r1 approves
\* applications, hands j1 over to r2 or deletes it, the admin closes it
LifeMenu ==
  [users |-> {"s1", "r1", "a1"}, jobs |-> {"j1"},
   statuses |-> {"approved"}, notes |-> {""},
   details |-> {d \in InterviewInputs : ValidInterview(Scheduled(d))},
   jobStatuses |-> {"closed"},
   bodies |-> {b \in JobBodies : "recruiter" \in DOMAIN b}]

\* requests on applications and on jobs are handled concurrently
LifeInit == InitWith({"j1"}, {0}, {1})
LifeNext == \E i \in Slots : HandleAll(i, LifeMenu)
LifeSpec == LifeInit /\ [][LifeNext]_vars

\* the steps of a submission, a status update or a listing in slot i
HandleLists(i, M) ==
  \/ \E c \in M.users, j \in M.jobs : SubmitFindJob(i, c, j)
  \/ SubmitFindOne(i)
  \/ SubmitCreate(i)
  \/ SubmitIncrement(i)
  \/ \E c \in M.users, id \in AppIds, st \in M.statuses, n \in M.notes :
       UpdateStatusFind(i, c, id, st, n)
  \/ UpdateStatusSave(i)
  \/ \E c \in M.users, q \in M.queries : ListMyFind(i, c, q)
  \/ \E c \in M.users, q \in M.queries : ListReceivedFind(i, c, q)
  \/ ListCount(i)

\* two students and the recruiters of j1 and j2; applications get approved
ListMenu ==
  [users |-> {"s1", "s2", "r1", "r2"}, jobs |-> {"j1", "j2"},
   statuses |-> {"approved"}, notes |-> {""}, queries |-> ListQueries]

\* both jobs exist; requests are handled one after the other
ListInit == InitWith({"j1", "j2"}, {0}, {1})
ListNext == HandleLists(1, ListMenu)
ListSpec == ListInit /\ [][ListNext]_vars

\* the steps of a submission, a status update or a stats request in slot i
HandleStats(i, M) ==
  \/ \E c \in M.users, j \in M.jobs : SubmitFindJob(i, c, j)
  \/ SubmitFindOne(i)
  \/ SubmitCreate(i)
  \/ SubmitIncrement(i)
  \/ \E c \in M.users, id \in AppIds, st \in M.statuses, n \in M.notes :
       UpdateStatusFind(i, c, id, st, n)
  \/ UpdateStatusSave(i)
  \/ \E c \in M.users : StatsAggregate(i, c)
  \/ StatsCount(i)

\* two students, the recruiters of j1 and j2 and an admin
StatsMenu ==
  [users |-> {"s1", "s2", "r1", "r2", "a1"}, jobs |-> {"j1", "j2"},
   statuses |-> {"approved"}, notes |-> {""}]

\* both jobs exist; requests interleave
StatsInit == InitWith({"j1", "j2"}, {0}, {1})
StatsNext == \E i \in Slots : HandleStats(i, StatsMenu)
StatsSpec == StatsInit /\ [][StatsNext]_vars

\* ================================================================ claims
IsPrefix(s, t) == Len(s) <= Len(t) /\ \A k \in 1..Len(s) : s[k] = t[k]
Last(s) == s[Len(s)]

\* the records of the pair (j, s) in the next state
RecordsNext(j, s) == {k \in 1..Len(apps') : apps'[k].job = j /\ apps'[k].student = s}

\* the request in slot i ends with this step
Ends(i) == reqs[i] # Idle /\ reqs'[i] = Idle

\* this step is the first of a request for op taken by slot i: every first
\* step either answers (resp names op) or leaves the request in the slot
Arrives(i, op) == Free(i) /\ (resp'.op = op \/ reqs'[i].op = op)

\* ---------------------------------------------------------------- C1
\* C1: in every state no two application records have the same job and the
\* same student, and a submission whose lookup finds a record of its pair is
\* answered Conflict and adds no record.
C1_OnePerPair ==
  /\ [](\A a, b \in 1..Len(apps) :
          apps[a].job = apps[b].job /\ apps[a].student = apps[b].student => a = b)
  /\ [][\A i \in Slots :
          (/\ reqs[i].op = "submitApplication"
           /\ reqs[i].pc = "findOne"
           /\ \E k \in 1..Len(apps) :
                apps[k].job = reqs[i].id /\ apps[k].student = reqs[i].caller
           /\ reqs'[i] # reqs[i])
          => resp' = [op |-> "submitApplication", code |-> Conflict] /\ apps' = apps]_vars

\* a second submission of s1 to j1 was answered Conflict while s1 has its record
C1_Witness ==
  /\ resp = [op |-> "submitApplication", code |-> Conflict]
  /\ Cardinality(findOne("j1", "s1")) = 1
  /\ Len(apps) = 2

\* ---------------------------------------------------------------- C2
\* C2: when a submission reaches its create after another request has created
\* the record of the same pair, one record of the pair survives and the
\* request is answered Conflict.
C2_RaceLoserGetsConflict ==
  [][\A i \in Slots :
       (/\ reqs[i].op = "submitApplication"
        /\ reqs[i].pc = "create"
        /\ \E k \in 1..Len(apps) :
             apps[k].job = reqs[i].id /\ apps[k].student = reqs[i].caller
        /\ Ends(i))
       => /\ Cardinality(RecordsNext(reqs[i].id, reqs[i].caller)) = 1
          /\ resp' = [op |-> "submitApplication", code |-> Conflict]]_vars

\* ---------------------------------------------------------------- C3
\* C3: a successful updateStatus, scheduleInterview or withdraw makes the
\* timeline exactly one entry longer, and the new entry carries the new status.
C3_OneEntryPerChange ==
  [][\A i \in Slots :
       (/\ reqs[i].op \in {"updateStatus", "scheduleInterview", "withdraw"}
        /\ Ends(i)
        /\ resp'.code = OK)
       => /\ Len(apps'[reqs[i].id].timeline) = Len(apps[reqs[i].id].timeline) + 1
          /\ Last(apps'[reqs[i].id].timeline).status = apps'[reqs[i].id].status]_vars

\* ---------------------------------------------------------------- C4
\* C4: after a successful updateStatus(newStatus, note) by caller C the status
\* is newStatus and the last timeline entry is {newStatus, the note or the
\* default note, C}; an update that follows the submission directly leaves a
\* timeline of two entries.
C4_LastEntryIsTheUpdate ==
  [][\A i \in Slots :
       (reqs[i].op = "updateStatus" /\ Ends(i) /\ resp'.code = OK)
       => LET after == apps'[reqs[i].id]
          IN /\ after.status = reqs[i].status
             /\ Last(after.timeline) =
                  [status |-> reqs[i].status,
                   note |-> IF reqs[i].note # "" THEN reqs[i].note
                            ELSE "Status changed to " \o reqs[i].status,
                   updatedBy |-> reqs[i].caller]
             /\ Len(apps[reqs[i].id].timeline) = 1 => Len(after.timeline) = 2]_vars

\* ---------------------------------------------------------------- C5
\* C5: in every step no application record disappears and every timeline of
\* the step's first state is a prefix of the same record's timeline afterwards.
C5_AppendOnly ==
  [][/\ Len(apps') >= Len(apps)
     /\ \A id \in 1..Len(apps) :
          IsPrefix(apps[id].timeline, apps'[id].timeline)]_vars

\* two writers that had both loaded the one-entry timeline have both saved
C5_Witness ==
  /\ Len(apps) >= 1
  /\ Len(apps[1].timeline) = 5
  /\ apps[1].timeline[2].status = "approved"
  /\ apps[1].timeline[4].status = "withdrawn"

\* ---------------------------------------------------------------- C6
\* C6: a withdraw by the application's student is answered InvalidState and
\* changes nothing when the status is approved or rejected; from every other
\* status it goes on to its save, which answers OK and leaves the status
\* withdrawn.
C6_WithdrawByStage ==
  [][\A i \in Slots :
       /\ \A c \in Students, id \in 1..Len(apps) :
            (Arrives(i, "withdraw") /\ WithdrawFind(i, c, id) /\ apps[id].student = c)
            => /\ apps' = apps
               /\ IF apps[id].status \in {"approved", "rejected"}
                    THEN /\ resp' = [op |-> "withdraw", code |-> InvalidState]
                         /\ reqs'[i] = Idle
                    ELSE /\ reqs'[i].op = "withdraw"
                         /\ reqs'[i].id = id
       /\ (reqs[i].op = "withdraw" /\ reqs'[i] # reqs[i])
          => /\ resp' = [op |-> "withdraw", code |-> OK]
             /\ apps'[reqs[i].id].status = "withdrawn"]_vars

\* the student withdrew, the application was then approved, and the
\* student's second withdraw was refused
C6_Witness ==
  /\ resp = [op |-> "withdraw", code |-> InvalidState]
  /\ Len(apps) = 1
  /\ apps[1].status = "approved"
  /\ Len(apps[1].timeline) = 5
  /\ apps[1].timeline[2].status = "withdrawn"

\* ---------------------------------------------------------------- C7
\* C7 as claimed: a recruiter other than the application's recruiter is
\* answered Forbidden by getApplication, updateStatus and scheduleInterview,
\* and the applications are unchanged.
C7_Claimed ==
  [][\A i \in Slots, c \in Recruiters, id \in 1..Len(apps) :
       (Free(i) /\ apps[id].recruiter # c) =>
         /\ GetApplication(i, c, id) => resp'.code = Forbidden /\ apps' = apps
         /\ Arrives(i, "updateStatus") =>
              \A st \in SeqMenu.statuses, n \in SeqMenu.notes :
                UpdateStatusFind(i, c, id, st, n) => resp'.code = Forbidden /\ apps' = apps
         /\ Arrives(i, "scheduleInterview") =>
              \A d \in SeqMenu.details :
                ScheduleInterviewFind(i, c, id, d) => resp'.code = Forbidden /\ apps' = apps]_vars

\* C7: a recruiter other than the application's recruiter is answered
\* Forbidden by getApplication, by scheduleInterview, and by updateStatus when
\* the requested status is pending, under_review, interview, approved or
\* rejected; updateStatus with any other requested status is answered
\* InvalidStatus; in each case the request ends and the applications are
\* unchanged.
C7_NonOwnerRecruiter ==
  [][\A i \in Slots, c \in Recruiters, id \in 1..Len(apps) :
       (Free(i) /\ apps[id].recruiter # c) =>
         /\ (Arrives(i, "getApplication") /\ GetApplication(i, c, id)) =>
              /\ resp' = [op |-> "getApplication", code |-> Forbidden]
              /\ apps' = apps /\ reqs'[i] = Idle
         /\ Arrives(i, "updateStatus") =>
              \A st \in SeqMenu.statuses, n \in SeqMenu.notes :
                \/ /\ resp' = [op |-> "updateStatus",
                               code |-> IF st \in {"pending", "under_review", "interview",
                                                   "approved", "rejected"}
                                          THEN Forbidden ELSE InvalidStatus]
                   /\ apps' = apps /\ reqs'[i] = Idle
                \/ ~UpdateStatusFind(i, c, id, st, n)
         /\ Arrives(i, "scheduleInterview") =>
              \A d \in SeqMenu.details :
                ScheduleInterviewFind(i, c, id, d) =>
                  /\ resp' = [op |-> "scheduleInterview", code |-> Forbidden]
                  /\ apps' = apps /\ reqs'[i] = Idle]_vars

\* r2 asked to change the status of an application to j1, which r1 posted
C7_Witness ==
  /\ resp = [op |-> "updateStatus", code |-> Forbidden]
  /\ Len(apps) = 1
  /\ apps[1].recruiter = "r1"
  /\ apps[1].status = "pending" /\ Len(apps[1].timeline) = 1

\* ---------------------------------------------------------------- C8
\* C8: getApplication of an existing application answers OK exactly when the
\* caller is its student, its recruiter or an admin, and Forbidden otherwise.
C8_ReadAccess ==
  [][\A i \in Slots, c \in Users, id \in 1..Len(apps) :
       (Arrives(i, "getApplication") /\ GetApplication(i, c, id)) =>
         /\ apps' = apps
         /\ resp'.op = "getApplication"
         /\ resp'.code = IF c = apps[id].student \/ c = apps[id].recruiter \/ c \in Admins
                           THEN OK ELSE Forbidden]_vars

\* some caller was refused an existing application of s1
C8_Witness ==
  /\ resp = [op |-> "getApplication", code |-> Forbidden]
  /\ Len(apps) = 1
  /\ apps[1].student = "s1"

\* ---------------------------------------------------------------- C9
\* C9: a withdraw by a student other than the application's student is
\* answered Forbidden; one by a recruiter or an admin is refused; in each case
\* the request ends with the applications unchanged; and a withdraw that goes
\* on to its save is the application's student's.
C9_OnlyOwnStudentWithdraws ==
  /\ [](\A i \in Slots :
          reqs[i].op = "withdraw" => reqs[i].caller = apps[reqs[i].id].student)
  /\ [][\A i \in Slots, c \in Users, id \in 1..Len(apps) :
          (Arrives(i, "withdraw") /\ WithdrawFind(i, c, id) /\ c # apps[id].student)
          => /\ apps' = apps /\ reqs'[i] = Idle
             /\ resp'.op = "withdraw"
             /\ resp'.code # OK
             /\ c \in Students => resp'.code = Forbidden]_vars

\* a withdraw was refused as Forbidden while s1's application was pending
C9_Witness ==
  /\ resp = [op |-> "withdraw", code |-> Forbidden]
  /\ Len(apps) = 1
  /\ apps[1].student = "s1" /\ apps[1].status = "pending"

\* ---------------------------------------------------------------- C10
\* C10: a student's submission to an existing job whose status is not active
\* is answered InvalidState, and it creates no application and leaves the
\* job documents (applicationCount among them) unchanged.
C10_InactiveJob ==
  [][\A i \in Slots, c \in Students, j \in JobIds :
       (/\ Arrives(i, "submitApplication")
        /\ SubmitFindJob(i, c, j)
        /\ jobs[j].exists /\ jobs[j].status # "active")
       => /\ resp' = [op |-> "submitApplication", code |-> InvalidState]
          /\ reqs'[i] = Idle
          /\ apps' = apps
          /\ jobs' = jobs]_vars

\* a submission to the paused job j1 was refused
C10_Witness ==
  /\ resp = [op |-> "submitApplication", code |-> InvalidState]
  /\ jobs["j1"].status = "paused"
  /\ apps = << >>
  /\ jobs["j1"].applicationCount = 0

\* ---------------------------------------------------------------- C11
\* C11: a student's submission to an existing active job is answered Expired,
\* creating no application and leaving applicationCount unchanged, exactly
\* when the job has a deadline and the clock reads a time after it; when the
\* clock reads the deadline or an earlier time, or the job has no deadline,
\* the submission goes on to its duplicate check without an answer.
C11_Deadline ==
  [][\A i \in Slots, c \in Students, j \in JobIds :
       (/\ Arrives(i, "submitApplication")
        /\ SubmitFindJob(i, c, j)
        /\ jobs[j].exists /\ jobs[j].status = "active")
       => /\ apps' = apps /\ jobs' = jobs
          /\ IF jobs[j].applicationDeadline # 0 /\ now > jobs[j].applicationDeadline
               THEN /\ resp' = [op |-> "submitApplication", code |-> Expired]
                    /\ reqs'[i] = Idle
               ELSE /\ resp' = resp
                    /\ reqs'[i].op = "submitApplication"
                    /\ reqs'[i].pc = "findOne"]_vars

\* s1 applied to j1 in time; after the deadline 1 a submission was answered
\* Expired and the one record and the count of 1 are what they were
C11_Witness ==
  /\ resp = [op |-> "submitApplication", code |-> Expired]
  /\ now = 2
  /\ jobs["j1"].status = "active" /\ jobs["j1"].applicationDeadline = 1
  /\ Len(apps) = 1 /\ apps[1].student = "s1"
  /\ jobs["j1"].applicationCount = 1

\* ---------------------------------------------------------------- C12
\* C12: the create of a submission adds one record, of the submitting student
\* and the job, with status pending, the job's recruiter and a timeline of
\* the single entry {pending, 'Application submitted'}; the submission is then
\* answered Created, with that record as it was created and the job's
\* applicationCount one higher than before.
C12_SubmitCreates ==
  [][\A i \in Slots :
       /\ (reqs[i].op = "submitApplication" /\ reqs[i].pc = "create" /\ reqs'[i] # reqs[i])
          => /\ Len(apps') = Len(apps) + 1
             /\ \A k \in 1..Len(apps) : apps'[k] = apps[k]
             /\ Last(apps').job = reqs[i].id
             /\ Last(apps').student = reqs[i].caller
             /\ Last(apps').status = "pending"
             /\ Last(apps').recruiter = jobs[reqs[i].id].recruiter
             /\ Len(Last(apps').timeline) = 1
             /\ Last(apps').timeline[1].status = "pending"
             /\ Last(apps').timeline[1].note = "Application submitted"
             /\ jobs' = jobs
       /\ (reqs[i].op = "submitApplication" /\ Ends(i) /\ resp'.code = Created)
          => /\ apps' = apps
             /\ Last(apps).job = reqs[i].id /\ Last(apps).student = reqs[i].caller
             /\ Last(apps).status = "pending" /\ Len(Last(apps).timeline) = 1
             /\ jobs'[reqs[i].id].applicationCount = jobs[reqs[i].id].applicationCount + 1
             /\ \A j \in JobIds \ {reqs[i].id} : jobs'[j] = jobs[j]]_vars

\* s1 and then s2 applied to j1, each was answered Created, and the count is 2
C12_Witness ==
  /\ resp = [op |-> "submitApplication", code |-> Created]
  /\ Len(apps) = 2
  /\ apps[2].status = "pending" /\ Len(apps[2].timeline) = 1
  /\ apps[2].recruiter = "r1"
  /\ jobs["j1"].applicationCount = 2

\* ---------------------------------------------------------------- C13
\* C13: whenever no request is being handled, each job's applicationCount is
\* the number of submissions to it that succeeded, which is the number of its
\* application records (the count starts at 0 with no record).
C13_NoLostIncrement ==
  (\A i \in Slots : reqs[i] = Idle)
  => \A j \in JobIds :
       jobs[j].applicationCount = Cardinality({k \in 1..Len(apps) : apps[k].job = j})

\* ---------------------------------------------------------------- C14
\* the applicationCount of every job is the same before and after the step
SameCounts == \A j \in JobIds : jobs'[j].applicationCount = jobs[j].applicationCount

\* C14: a step changes an applicationCount only if it ends, with the answer
\* Created, a submission whose application record exists; a submission that
\* is answered at once (NotFound, InvalidState, Expired, Forbidden) or ends
\* with Conflict or with a failed create leaves every applicationCount as it
\* was.
C14_CountOnlyOnCreate ==
  [][/\ SameCounts
        \/ \E i \in Slots :
             /\ reqs[i].op = "submitApplication" /\ reqs[i].pc = "increment"
             /\ Ends(i)
             /\ resp' = [op |-> "submitApplication", code |-> Created]
             /\ findOne(reqs[i].id, reqs[i].caller) # {}
     /\ \A i \in Slots :
          (reqs[i].op = "submitApplication" /\ Ends(i) /\ resp'.code # Created)
          => /\ resp'.code \in {Conflict, ServerError}
             /\ SameCounts
     /\ \A i \in Slots, c \in JobMenu.users, j \in JobMenu.jobs :
          (Arrives(i, "submitApplication") /\ SubmitFindJob(i, c, j) /\ reqs'[i] = Idle)
          => /\ resp'.code \in {Forbidden, NotFound, InvalidState, Expired}
             /\ SameCounts]_vars

\* two submissions of s1 raced: one created the record and counted it, the
\* create of the other failed and the count is still 1
C14_Witness ==
  /\ resp = [op |-> "submitApplication", code |-> ServerError]
  /\ Len(apps) = 1
  /\ jobs["j1"].applicationCount = 1
  /\ \A i \in Slots : reqs[i] = Idle

\* ---------------------------------------------------------------- C15
\* C15: a student's submission is answered NotFound when the job does not
\* exist; else InvalidState when the job is not active, whether or not its
\* deadline has passed and the student has applied; else Expired when the
\* deadline has passed, whether or not the student has applied; else it goes
\* on to its duplicate check, which alone answers Conflict, when it finds the
\* student's record.
C15_CheckOrder ==
  [][\A i \in Slots :
       /\ \A c \in Students, j \in JobMenu.jobs :
            (Arrives(i, "submitApplication") /\ SubmitFindJob(i, c, j))
            => IF j \notin JobIds \/ ~jobs[j].exists
                 THEN resp' = [op |-> "submitApplication", code |-> NotFound]
               ELSE IF jobs[j].status # "active"
                 THEN resp' = [op |-> "submitApplication", code |-> InvalidState]
               ELSE IF jobs[j].applicationDeadline # 0 /\ now > jobs[j].applicationDeadline
                 THEN resp' = [op |-> "submitApplication", code |-> Expired]
               ELSE resp' = resp /\ reqs'[i].pc = "findOne"
       /\ (reqs[i].op = "submitApplication" /\ Ends(i) /\ resp'.code = Conflict)
          => /\ reqs[i].pc = "findOne"
             /\ findOne(reqs[i].id, reqs[i].caller) # {}
       /\ (reqs[i].op = "submitApplication" /\ reqs[i].pc = "findOne"
            /\ reqs'[i] # reqs[i] /\ findOne(reqs[i].id, reqs[i].caller) # {})
          => resp' = [op |-> "submitApplication", code |-> Conflict]]_vars

\* s1 and s2 applied to j1 in time; the job was then closed, its deadline 1
\* passed, and a further submission was answered InvalidState
C15_Witness ==
  /\ resp = [op |-> "submitApplication", code |-> InvalidState]
  /\ Len(apps) = 2
  /\ jobs["j1"].status = "closed"
  /\ jobs["j1"].applicationDeadline = 1 /\ now = 2

\* ---------------------------------------------------------------- C16
\* C16 as claimed: an updateStatus by the application's recruiter or an admin
\* goes on to its save when the requested status is pending, under_review,
\* interview, approved, rejected or withdrawn, and is answered InvalidStatus,
\* with the applications unchanged, for every other requested status.
C16_Claimed ==
  [][\A i \in Slots, c \in Recruiters \cup Admins, id \in 1..Len(apps) :
       (Arrives(i, "updateStatus") /\ (c \in Admins \/ apps[id].recruiter = c)) =>
         \A st \in SeqMenu.statuses, n \in SeqMenu.notes :
           \/ /\ apps' = apps
              /\ IF st \in {"pending", "under_review", "interview", "approved",
                            "rejected", "withdrawn"}
                   THEN reqs'[i].op = "updateStatus" /\ reqs'[i].status = st
                   ELSE /\ resp' = [op |-> "updateStatus", code |-> InvalidStatus]
                        /\ reqs'[i] = Idle
           \/ ~UpdateStatusFind(i, c, id, st, n)]_vars

\* C16: an updateStatus by the application's recruiter or an admin goes on to
\* its save when the requested status is pending, under_review, interview,
\* approved or rejected, and is answered InvalidStatus, with the applications
\* unchanged, for every other requested status, withdrawn among them.
C16_FiveAccepted ==
  [][\A i \in Slots, c \in Recruiters \cup Admins, id \in 1..Len(apps) :
       (Arrives(i, "updateStatus") /\ (c \in Admins \/ apps[id].recruiter = c)) =>
         \A st \in SeqMenu.statuses, n \in SeqMenu.notes :
           \/ /\ apps' = apps
              /\ IF st \in {"pending", "under_review", "interview", "approved", "rejected"}
                   THEN reqs'[i].op = "updateStatus" /\ reqs'[i].status = st
                   ELSE /\ resp' = [op |-> "updateStatus", code |-> InvalidStatus]
                        /\ reqs'[i] = Idle
           \/ ~UpdateStatusFind(i, c, id, st, n)]_vars

\* a status update of the under_review application of s1 was refused as
\* InvalidStatus
C16_Witness ==
  /\ resp = [op |-> "updateStatus", code |-> InvalidStatus]
  /\ Len(apps) = 1
  /\ apps[1].status = "under_review"
  /\ Len(apps[1].timeline) = 3

\* ---------------------------------------------------------------- C17
\* C17: whatever the status of an application, an updateStatus by its
\* recruiter or an admin that asks for pending, under_review, interview,
\* approved or rejected is not answered at its first step but goes on to its
\* save, and the save answers OK and leaves the application with the status
\* asked for.
C17_AnyTransition ==
  [][\A i \in Slots :
       /\ Arrives(i, "updateStatus") =>
            \A id \in 1..Len(apps) :
            \A c \in Admins \cup {apps[id].recruiter}, st \in validStatuses, n \in SeqMenu.notes :
              \/ /\ reqs'[i].op = "updateStatus"
                 /\ reqs'[i].id = id /\ reqs'[i].status = st
                 /\ resp' = resp /\ apps' = apps
              \/ ~UpdateStatusFind(i, c, id, st, n)
       /\ (reqs[i].op = "updateStatus" /\ reqs'[i] # reqs[i])
          => /\ resp' = [op |-> "updateStatus", code |-> OK]
             /\ reqs'[i] = Idle
             /\ apps'[reqs[i].id].status = reqs[i].status]_vars

\* the application was rejected and then put under review
C17_Witness ==
  /\ resp = [op |-> "updateStatus", code |-> OK]
  /\ Len(apps) = 1
  /\ apps[1].status = "under_review"
  /\ Len(apps[1].timeline) = 5
  /\ apps[1].timeline[2].status = "rejected"

\* ---------------------------------------------------------------- C18
\* C18: whatever the status of an application, a scheduleInterview by its
\* recruiter or an admin goes on to its save; a save that answers OK leaves
\* the interview record scheduled with the date, time, location, type and
\* notes of the request, the status interview, and the timeline longer by
\* entries among which one has the status interview and a note with the
\* request's date and time.
C18_InterviewScheduled ==
  [][\A i \in Slots :
       /\ Arrives(i, "scheduleInterview") =>
            \A id \in 1..Len(apps) :
            \A c \in Admins \cup {apps[id].recruiter}, d \in SeqMenu.details :
              \/ /\ reqs'[i].op = "scheduleInterview"
                 /\ reqs'[i].id = id /\ reqs'[i].details = d
                 /\ resp' = resp /\ apps' = apps
              \/ ~ScheduleInterviewFind(i, c, id, d)
       /\ (reqs[i].op = "scheduleInterview" /\ Ends(i) /\ resp'.code = OK)
          => LET before == apps[reqs[i].id]
                 after  == apps'[reqs[i].id]
                 d      == reqs[i].details
             IN /\ after.interview =
                     [scheduled |-> TRUE, date |-> NewDate(d.date), time |-> d.time,
                      location |-> d.location, type |-> d.type, notes |-> d.notes]
                /\ after.interview.date = "Date(2024-02-01)"
                /\ after.status = "interview"
                /\ IsPrefix(before.timeline, after.timeline)
                /\ \E k \in (Len(before.timeline) + 1)..Len(after.timeline) :
                     /\ after.timeline[k].status = "interview"
                     /\ after.timeline[k].note =
                          "Interview scheduled for " \o d.date \o " at " \o d.time]_vars

\* an interview was scheduled for the application after it had been rejected
C18_Witness ==
  /\ resp = [op |-> "scheduleInterview", code |-> OK]
  /\ Len(apps) = 1
  /\ apps[1].status = "interview"
  /\ apps[1].interview.scheduled
  /\ Len(apps[1].timeline) = 5
  /\ apps[1].timeline[2].status = "rejected"
  /\ apps[1].timeline[4].note = "Interview scheduled for 2024-02-01 at 10:00"

\* ---------------------------------------------------------------- C19
\* C19: in every state the last timeline entry of every application carries
\* the application's status.
C19_LastEntryHasStatus ==
  \A id \in 1..Len(apps) : Last(apps[id].timeline).status = apps[id].status

\* ---------------------------------------------------------------- C20
\* C20: an updateStatus or scheduleInterview by an admin on any application
\* is taken to its save exactly as the request of the application's recruiter
\* is (updateStatus when the requested status is pending, under_review,
\* interview, approved or rejected), and the save answers OK and appends the
\* entry of the request with the caller as updatedBy; the same requests by a
\* student, for any id, are answered Forbidden with the applications
\* unchanged; and no student's request of either kind is ever at its save.
C20_AdminYesStudentNo ==
  /\ [](\A i \in Slots :
          reqs[i].op \in {"updateStatus", "scheduleInterview"}
          => \/ reqs[i].caller \in Admins
             \/ reqs[i].caller = apps[reqs[i].id].recruiter)
  /\ [][\A i \in Slots :
          /\ Arrives(i, "updateStatus") =>
               /\ \A id \in 1..Len(apps), a \in Admins,
                     st \in {"pending", "under_review", "interview", "approved", "rejected"},
                     n \in SeqMenu.notes :
                    \/ /\ reqs'[i] = [op |-> "updateStatus", pc |-> "save", caller |-> a,
                                      id |-> id, status |-> st, note |-> n,
                                      doc |-> [status |-> apps[id].status,
                                               interview |-> apps[id].interview]]
                       /\ resp' = resp /\ apps' = apps
                    \/ ~UpdateStatusFind(i, a, id, st, n)
               /\ \A id \in AppIds, c \in Students, st \in SeqMenu.statuses, n \in SeqMenu.notes :
                    \/ /\ resp' = [op |-> "updateStatus", code |-> Forbidden]
                       /\ reqs'[i] = Idle /\ apps' = apps
                    \/ ~UpdateStatusFind(i, c, id, st, n)
          /\ Arrives(i, "scheduleInterview") =>
               /\ \A id \in 1..Len(apps), a \in Admins, d \in SeqMenu.details :
                    \/ /\ reqs'[i] = [op |-> "scheduleInterview", pc |-> "save", caller |-> a,
                                      id |-> id, details |-> d,
                                      doc |-> [status |-> apps[id].status,
                                               interview |-> apps[id].interview]]
                       /\ resp' = resp /\ apps' = apps
                    \/ ~ScheduleInterviewFind(i, a, id, d)
               /\ \A id \in AppIds, c \in Students, d \in SeqMenu.details :
                    \/ /\ resp' = [op |-> "scheduleInterview", code |-> Forbidden]
                       /\ reqs'[i] = Idle /\ apps' = apps
                    \/ ~ScheduleInterviewFind(i, c, id, d)
          /\ (reqs[i].op \in {"updateStatus", "scheduleInterview"} /\ Ends(i) /\ resp'.code = OK)
             => LET before == apps[reqs[i].id]
                    after  == apps'[reqs[i].id]
                    pushed == after.timeline[Len(before.timeline) + 1]
                IN /\ Len(after.timeline) > Len(before.timeline)
                   /\ pushed.updatedBy = reqs[i].caller
                   /\ pushed.status = after.status
                   /\ after.status = IF reqs[i].op = "updateStatus"
                                       THEN reqs[i].status ELSE "interview"
          /\ (reqs[i].op = "updateStatus" /\ reqs'[i] # reqs[i])
             => resp' = [op |-> "updateStatus", code |-> OK]]_vars

\* the admin a1 approved an application to j1, whose recruiter is r1
C20_Witness ==
  /\ resp = [op |-> "updateStatus", code |-> OK]
  /\ Len(apps) = 1
  /\ apps[1].recruiter = "r1"
  /\ apps[1].status = "approved"
  /\ Len(apps[1].timeline) = 3
  /\ apps[1].timeline[2].updatedBy = "a1"

\* ---------------------------------------------------------------- C21
\* C21: a request that is answered at its first step leaves the applications
\* as they were; so does the step that ends an updateStatus, scheduleInterview
\* or withdraw with an answer other than OK; and a submission that ends with
\* an answer other than Created has created no record.
C21_NoPartialSuccess ==
  [][/\ reqs' = reqs => apps' = apps
     /\ \A i \in Slots :
          /\ (reqs[i].op \in {"updateStatus", "scheduleInterview", "withdraw"}
               /\ Ends(i) /\ resp'.code # OK)
             => apps' = apps
          /\ (reqs[i].op = "submitApplication" /\ Ends(i) /\ resp'.code # Created)
             => /\ apps' = apps
                /\ reqs[i].pc # "increment"]_vars

\* ---------------------------------------------------------------- C22
\* C22: in every step every application record of the step's first state is
\* still there afterwards, the record of the same job and student; a withdraw
\* that is answered OK removes nothing and leaves its record with the status
\* withdrawn.
C22_NeverDeleted ==
  [][/\ Len(apps') >= Len(apps)
     /\ \A id \in 1..Len(apps) :
          /\ apps'[id].job = apps[id].job
          /\ apps'[id].student = apps[id].student
     /\ \A i \in Slots :
          (reqs[i].op = "withdraw" /\ Ends(i) /\ resp'.code = OK)
          => /\ Len(apps') = Len(apps)
             /\ apps'[reqs[i].id].status = "withdrawn"]_vars

\* s1 withdrew its application to j1 and j1 was then deleted: the record is
\* still there
C22_Witness ==
  /\ resp = [op |-> "deleteJob", code |-> OK]
  /\ ~jobs["j1"].exists
  /\ Len(apps) = 1
  /\ apps[1].job = "j1" /\ apps[1].status = "withdrawn"

\* ---------------------------------------------------------------- C23
\* C23: a student's submission to a job that does not exist (the id of no
\* job, or a job that was deleted) is answered NotFound; so is a
\* getApplication by any caller, a scheduleInterview by a recruiter or an
\* admin and a withdraw by a student for the id of no application; in each
\* case the request ends and applications and jobs are as they were.
C23_MissingTargets ==
  [][\A i \in Slots :
       /\ Arrives(i, "submitApplication") =>
            \A c \in Students, j \in JobIds \cup {NoJob} :
              \/ j \in JobIds /\ jobs[j].exists
              \/ /\ resp' = [op |-> "submitApplication", code |-> NotFound]
                 /\ reqs'[i] = Idle /\ apps' = apps /\ jobs' = jobs
              \/ ~SubmitFindJob(i, c, j)
       /\ Arrives(i, "getApplication") =>
            \A c \in Users :
              \/ /\ resp' = [op |-> "getApplication", code |-> NotFound]
                 /\ reqs'[i] = Idle /\ apps' = apps /\ jobs' = jobs
              \/ ~GetApplication(i, c, Len(apps) + 1)
       /\ Arrives(i, "scheduleInterview") =>
            \A c \in Recruiters \cup Admins, d \in InterviewInputs :
              \/ /\ resp' = [op |-> "scheduleInterview", code |-> NotFound]
                 /\ reqs'[i] = Idle /\ apps' = apps /\ jobs' = jobs
              \/ ~ScheduleInterviewFind(i, c, Len(apps) + 1, d)
       /\ Arrives(i, "withdraw") =>
            \A c \in Students :
              \/ /\ resp' = [op |-> "withdraw", code |-> NotFound]
                 /\ reqs'[i] = Idle /\ apps' = apps /\ jobs' = jobs
              \/ ~WithdrawFind(i, c, Len(apps) + 1)]_vars

\* s1 applied to j1, j1 was deleted, and a further submission to j1 was
\* answered NotFound
C23_Witness ==
  /\ resp = [op |-> "submitApplication", code |-> NotFound]
  /\ ~jobs["j1"].exists
  /\ Len(apps) = 1
  /\ \A i \in Slots : reqs[i] = Idle

\* ---------------------------------------------------------------- C24
\* the applications a listing request r is to show: those of the caller (as
\* student for GET /my, as recruiter for GET /received), of the status asked
\* for, and of the job asked for when byJob holds
ToShow(r, byJob) ==
  {id \in 1..Len(apps) :
     /\ IF r.op = "listMy" THEN apps[id].student = r.caller
                            ELSE apps[id].recruiter = r.caller
     /\ r.q.status # "" => apps[id].status = r.q.status
     /\ (byJob /\ r.q.jobId # "") => apps[id].job = r.q.jobId}

\* the answer of the next state shows only applications of S, counts S as
\* total, and pages is total / limit rounded up
Shows(S) ==
  /\ resp'.code = OK
  /\ \A k \in 1..Len(resp'.applications) : resp'.applications[k].id \in S
  /\ Len(resp'.applications) <= resp'.limit
  /\ resp'.total = Cardinality(S)
  /\ resp'.pages * resp'.limit >= resp'.total
  /\ (resp'.pages - 1) * resp'.limit < resp'.total \/ resp'.pages = 0

\* C24 as stated: both listings show only the caller's applications, further
\* restricted to the given status and to the given jobId, with total the
\* number of matching applications and pages = total / limit rounded up.
C24_Claimed ==
  [][\A i \in Slots :
       (reqs[i].op \in {"listMy", "listReceived"} /\ Ends(i))
         => Shows(ToShow(reqs[i], TRUE))]_vars

\* C24: a by-recruiter listing shows only the caller's applications of the
\* given status and the given job; a by-student listing shows only the
\* caller's applications of the given status, whatever jobId is given; total
\* is the number of those applications and pages = total / limit rounded up.
C24_Listing ==
  [][\A i \in Slots :
       (reqs[i].op \in {"listMy", "listReceived"} /\ Ends(i))
         => Shows(ToShow(reqs[i], reqs[i].op = "listReceived"))]_vars

\* a recruiter's listing answered with one of two applications, the other one
\* being for another recruiter's job
C24_Witness ==
  /\ resp.op = "listReceived" /\ resp.code = OK
  /\ Len(apps) = 2 /\ apps[1].recruiter # apps[2].recruiter
  /\ resp.total = 1 /\ resp.pages = 1 /\ Len(resp.applications) = 1
  /\ resp.applications[1].status = "approved"

\* ---------------------------------------------------------------- C25
\* the count a stats answer gives for status s
CountOf(byStatus, s) == IF s \in DOMAIN byStatus THEN byStatus[s] ELSE 0

\* the sum of the counts of a stats answer over the statuses of S
RECURSIVE SumOf(_, _)
SumOf(byStatus, S) ==
  IF S = {} THEN 0
  ELSE LET s == CHOOSE x \in S : TRUE
       IN CountOf(byStatus, s) + SumOf(byStatus, S \ {s})

\* the applications in the scope of a stats request by caller
InScope(caller) ==
  {id \in 1..Len(apps') :
     Role(caller) = "recruiter" => apps'[id].recruiter = caller}

\* C25: a stats request answers, for a recruiter over the applications whose
\* stored recruiter is the caller and for an admin over all applications,
\* byStatus[s] = the number of those with status s, and a total equal to the
\* sum of the byStatus counts, also when other requests run meanwhile.
C25_StatsConsistent ==
  [][\A i \in Slots :
       (reqs[i].op = "getStats" /\ Ends(i))
         => /\ resp'.total = SumOf(resp'.byStatus, AppStatuses)
            /\ \A s \in AppStatuses :
                 CountOf(resp'.byStatus, s) =
                   Cardinality({id \in InScope(reqs[i].caller) : apps'[id].status = s})]_vars

\* ---------------------------------------------------------------- C26
\* C26: no step of a withdraw request changes to withdrawn an application
\* whose stored status is approved or rejected, whatever other request ran
\* between the withdraw's status check and its save.
C26_DecidedNeverWithdrawn ==
  [][\A i \in Slots :
       reqs[i].op = "withdraw" /\ reqs'[i] # reqs[i]
         => \A id \in 1..Len(apps) :
              apps[id].status \in {"approved", "rejected"}
                => apps'[id].status # "withdrawn"]_vars

\* ---------------------------------------------------------------- C27
\* C27: whenever a submission persists its application record, the job of
\* that record exists and its status is active at that moment, whatever
\* changed the job between the submission's status check and its create.
C27_CreatedOnlyForActiveJob ==
  [][\A i \in Slots :
       (reqs[i].op = "submitApplication" /\ reqs[i].pc = "create"
          /\ Len(apps') > Len(apps))
         => /\ jobs[reqs[i].id].exists
            /\ jobs[reqs[i].id].status = "active"]_vars

\* ---------------------------------------------------------------- C28
\* the application records of job j
RecordsOf(j) == {id \in 1..Len(apps) : apps[id].job = j}

\* C28: from a state where every job's applicationCount equals the number of
\* its application records, submissions in any interleaving keep every job's
\* applicationCount at most the number of application records of that job.
C28_NeverOverCounts ==
  \A j \in JobIds : jobs[j].applicationCount <= Cardinality(RecordsOf(j))

\* two submissions to j1 have both been answered Created and the counter of
\* j1 reads 1: an under-count
C28_Witness ==
  /\ \A i \in Slots : reqs[i] = Idle
  /\ resp = [op |-> "submitApplication", code |-> Created]
  /\ Cardinality(RecordsOf("j1")) = 2
  /\ jobs["j1"].exists /\ jobs["j1"].applicationCount = 1

\* ---------------------------------------------------------------- C29
\* C29: no step of an updateStatus, scheduleInterview or withdraw request
\* changes the job, student or recruiter of an application; no step of an
\* updateStatus or withdraw request changes an interview record; and a
\* recruiter whose updateStatus or scheduleInterview succeeds is the recruiter
\* stored on the application, whoever owns the job by then.
C29_ReferencesFixed ==
  [][\A i \in Slots :
       \/ reqs'[i] = reqs[i]
       \/ reqs[i] = Idle
       \/ /\ reqs[i].op \in {"updateStatus", "scheduleInterview", "withdraw"}
               => /\ Len(apps') = Len(apps)
                  /\ \A id \in 1..Len(apps) :
                       /\ apps'[id].job = apps[id].job
                       /\ apps'[id].student = apps[id].student
                       /\ apps'[id].recruiter = apps[id].recruiter
                       /\ reqs[i].op # "scheduleInterview"
                            => apps'[id].interview = apps[id].interview
          /\ (/\ reqs[i].op \in {"updateStatus", "scheduleInterview"}
              /\ resp'.code = OK
              /\ Role(reqs[i].caller) = "recruiter")
               => apps[reqs[i].id].recruiter = reqs[i].caller]_vars

\* a withdrawal has succeeded on an application with a scheduled interview,
\* which is still scheduled; the application still names r1 as its recruiter
\* although job j1 now belongs to r2
C29_Witness ==
  /\ resp = [op |-> "withdraw", code |-> OK]
  /\ Len(apps) = 1 /\ apps[1].status = "withdrawn"
  /\ apps[1].interview.scheduled
  /\ apps[1].recruiter = "r1" /\ jobs["j1"].recruiter = "r2"

====
